---- MODULE Spec2Model ----
(***************************************************************************)
(* State-machine model of src/app/editor/TextEditor.tsx: the React state   *)
(* of the TextEditor component (palette, gesture indices, snippet          *)
(* counters), the long-press timer behind holdTimeoutRef, and the part of  *)
(* the host document (DOM nodes and the live selection range) that the     *)
(* formatting, snippet, Tab and font-size commands read and write.         *)
(*                                                                         *)
(* Palette indices are 0-based as in the source; a JavaScript array is a   *)
(* TLA+ sequence and At(arr, i) reads arr[i].                              *)
(***************************************************************************)
EXTENDS Integers, Sequences, FiniteSets, Bags, TLC

VARIABLES
    colors,             \* useState colors (line 12)
    editingIndex,       \* useState editingIndex (line 13)
    draggedIndex,       \* useState draggedIndex (line 14)
    dropPosition,       \* useState dropPosition (line 15)
    activeColorIndex,   \* useState activeColorIndex (line 17)
    holdTimeoutRef,     \* holdTimeoutRef.current: a timer id or Null (line 9)
    pointer,            \* the host's pointer on the palette: "up", "down", "drag", "extdrag"
    timers,             \* the host's pending setTimeout(..., 500) timers
    cCounter,           \* useState cCounter (line 18)
    iCounter,           \* useState iCounter (line 19)
    justInsertedSnippet,\* useState justInsertedSnippet (line 20)
    activeFormats,      \* useState activeFormats (lines 21-28)
    nodes,              \* the host document: the DOM nodes, by node id
    selection,          \* window.getSelection(): its range, or NoRange
    hostFormats,        \* what document.queryCommandState reports
    foreColor,          \* the colour execCommand('foreColor') applied last, or ""
    tasks,              \* pending setTimeout(..., 0) callbacks, in order
    snippetLog,         \* the texts insertSnippet was called with, in order
    nEvents             \* number of input events handled so far

paletteVars == <<colors, editingIndex, draggedIndex, dropPosition,
                 activeColorIndex, holdTimeoutRef, timers, pointer>>

editorVars == <<cCounter, iCounter, justInsertedSnippet, activeFormats,
                nodes, selection, hostFormats, foreColor, tasks, snippetLog>>

vars == <<paletteVars, editorVars, nEvents>>

----------------------------------------------------------------------------
(* Values *)

\* JavaScript null for the number | null states and the timer ref.
Null == -1

\* The seed palette of useState (line 12).
InitColors ==
    <<"#000000", "#FF0000", "#00B050", "#0070C0",
      "#FFD966", "#FF6B6B", "#4ECDC4", "#95E1D3">>

\* Values the colour input can report in onChange: a fresh colour and one that
\* is already in the palette (values need not be unique).
EditValues == {"#123456", "#FF0000"}

\* The long-press delay passed to setTimeout (line 274).
HoldMs == 500

\* Granularity of the passage of time, and the number of input events a run
\* handles: MaxEvents for the events of the editor and its toolbar (key,
\* selection and button events), MaxPaletteEvents for the pointer and drag
\* events of the palette.
TickMs == 250
MaxEvents == 3
MaxPaletteEvents == 4

Indices(arr) == 0 .. (Len(arr) - 1)

At(arr, i) == arr[i + 1]

\* An input event is handled: every handler below that the user triggers
\* counts one; timer callbacks and the passage of time do not.
InputEvent == nEvents < MaxEvents /\ nEvents' = nEvents + 1

PaletteEvent == nEvents < MaxPaletteEvents /\ nEvents' = nEvents + 1

----------------------------------------------------------------------------
(* Array helpers, as JavaScript computes them *)

\* [...arr] with arr[i] = v assigned (i in range).
SetAt(arr, i, v) == [arr EXCEPT ![i + 1] = v]

Min(a, b) == IF a < b THEN a ELSE b

Max(a, b) == IF a > b THEN a ELSE b

\* Mutant of Splice: nothing is deleted.
SpliceKeepsAll(arr, start, deleteCount, items) ==
    LET s == Min(start, Len(arr))
    IN  SubSeq(arr, 1, s) \o items \o SubSeq(arr, s + 1, Len(arr))

\* Array.prototype.splice(start, deleteCount, ...items) for start >= 0: start
\* and deleteCount are clamped to the array, the deleted run is replaced by
\* items.
Splice(arr, start, deleteCount, items) ==
    LET s == Min(start, Len(arr))
        d == Max(0, Min(deleteCount, Len(arr) - s))
    IN  SubSeq(arr, 1, s) \o items \o SubSeq(arr, s + d + 1, Len(arr))

----------------------------------------------------------------------------
(* The host document: DOM nodes and ranges *)

\* Text is a sequence of characters; NBSP is U+00A0 (the &nbsp; entity).
NBSP == "nbsp"

WelcomeText ==
    <<"W","e","l","c","o","m","e"," ","t","o"," ","Y","o","u","r"," ",
      "T","e","x","t"," ","E","d","i","t","o","r">>

StartText ==
    <<"S","t","a","r","t"," ","t","y","p","i","n","g"," ","t","o"," ",
      "c","r","e","a","t","e"," ","y","o","u","r"," ",
      "d","o","c","u","m","e","n","t",".",".",".">>

\* element.style of a node: "" and Null are properties that are not set;
\* fontSize is in pt.
NoStyle ==
    [fontWeight |-> "", fontSize |-> Null, textDecoration |-> "",
     fontStyle |-> ""]

\* document.createElement(tag) with the given inline style: not yet in the
\* document (parent Null).
Element(tag, style) ==
    [tag |-> tag, parent |-> Null, children |-> <<>>, data |-> <<>>,
     style |-> style]

TextNode(data) ==
    [tag |-> "#text", parent |-> Null, children |-> <<>>, data |-> data,
     style |-> NoStyle]

\* The contentEditable div (node 1) with its two JSX children (lines 474-487).
EditorId == 1

InitNodes ==
    << [Element("div", NoStyle) EXCEPT !.children = <<2, 4>>],
       [Element("h1", NoStyle) EXCEPT !.parent = 1, !.children = <<3>>],
       [TextNode(WelcomeText) EXCEPT !.parent = 2],
       [Element("p", NoStyle) EXCEPT !.parent = 1, !.children = <<5>>],
       [TextNode(StartText) EXCEPT !.parent = 4] >>

IsText(ns, id) == ns[id].tag = "#text"

\* Number of places of a node a boundary point can address: characters of a
\* text node, children of an element.
NodeLength(ns, id) ==
    IF IsText(ns, id) THEN Len(ns[id].data) ELSE Len(ns[id].children)

\* 0-based index of a node among its parent's children.
ChildIndex(ns, id) ==
    CHOOSE k \in Indices(ns[ns[id].parent].children) :
        At(ns[ns[id].parent].children, k) = id

RECURSIVE RootOf(_, _)
RootOf(ns, id) == IF ns[id].parent = Null THEN id ELSE RootOf(ns, ns[id].parent)

\* Node.isConnected, for the one document the editor lives in.
IsConnected(ns, id) == RootOf(ns, id) = EditorId

\* A range with both boundary points given; Caret is a collapsed range.
Range(sc, so, ec, eo) == [sc |-> sc, so |-> so, ec |-> ec, eo |-> eo]

Caret(c, o) == Range(c, o, c, o)

IsCollapsed(r) == r.sc = r.ec /\ r.so = r.eo

\* The selection with rangeCount 0.
NoRange == Range(Null, 0, Null, 0)

\* The result of a DOM operation: the nodes and the range it leaves.
Dom(ns, r) == [nodes |-> ns, range |-> r]

\* parent.insertBefore(child, parent.childNodes[k]) for a child that is not in
\* the document.
InsertChild(ns, parent, k, child) ==
    [ns EXCEPT ![parent].children = Splice(@, k, 0, <<child>>),
               ![child].parent = parent]

\* Text.splitText(offset): the node keeps data[0, offset), a new text node
\* with the rest follows it in the parent. The new node's id is Len(ns) + 1.
SplitText(ns, id, offset) ==
    LET new == Len(ns) + 1
        rest == SubSeq(ns[id].data, offset + 1, Len(ns[id].data))
        ns1 == Append([ns EXCEPT ![id].data = SubSeq(@, 1, offset)],
                      TextNode(rest))
    IN  InsertChild(ns1, ns[id].parent, ChildIndex(ns, id) + 1, new)

\* Range.insertNode(node) for a range whose end is not before its start: a
\* text start container is split at the start offset and the node goes between
\* the halves, an element start container gets the node at the start offset.
\* A collapsed range is extended over the inserted node.
InsertNode(ns, r, node) ==
    LET split == IsText(ns, r.sc)
        ns1 == IF split THEN SplitText(ns, r.sc, r.so) ELSE ns
        parent == IF split THEN ns[r.sc].parent ELSE r.sc
        k == IF split THEN ChildIndex(ns, r.sc) + 1 ELSE r.so
        end == IF IsCollapsed(r)
               THEN [ec |-> parent, eo |-> k + 1]
               ELSE IF split /\ r.ec = r.sc
               THEN [ec |-> Len(ns) + 1, eo |-> r.eo - r.so]
               ELSE IF r.ec = parent /\ r.eo > k
               THEN [ec |-> parent, eo |-> r.eo + 1]
               ELSE [ec |-> r.ec, eo |-> r.eo]
    IN  Dom(InsertChild(ns1, parent, k, node),
            Range(r.sc, r.so, end.ec, end.eo))

\* Range.setStartAfter(node); Range.setEndAfter(node): the range collapsed
\* right after node.
CollapseAfter(ns, node) == Caret(ns[node].parent, ChildIndex(ns, node) + 1)

\* Set the parent of each node of ids.
RECURSIVE SetParents(_, _, _)
SetParents(ns, ids, parent) ==
    IF ids = <<>>
    THEN ns
    ELSE SetParents([ns EXCEPT ![Head(ids)].parent = parent], Tail(ids), parent)

\* Detach the children [from, to) of an element.
RemoveChildren(ns, parent, from, to) ==
    LET gone == SubSeq(ns[parent].children, from + 1, to)
    IN  [SetParents(ns, gone, Null)
            EXCEPT ![parent].children = Splice(@, from, to - from, <<>>)]

\* Range.deleteContents() for a range within one container: the selected
\* characters or children are removed and the range collapses to its start.
DeleteContents(ns, r) ==
    IF IsCollapsed(r)
    THEN Dom(ns, r)
    ELSE IF IsText(ns, r.sc)
    THEN Dom([ns EXCEPT ![r.sc].data = Splice(@, r.so, r.eo - r.so, <<>>)],
             Caret(r.sc, r.so))
    ELSE Dom(RemoveChildren(ns, r.sc, r.so, r.eo), Caret(r.sc, r.so))

\* Range.extractContents() for a range within one container, with the
\* extracted nodes appended to the (empty, detached) element into: selected
\* characters become a new text node, selected children are moved.
ExtractContentsInto(ns, r, into) ==
    IF IsText(ns, r.sc)
    THEN LET new == Len(ns) + 1
             cut == SubSeq(ns[r.sc].data, r.so + 1, r.eo)
             ns1 == Append(DeleteContents(ns, r).nodes, TextNode(cut))
         IN  Dom(InsertChild(ns1, into, 0, new), Caret(r.sc, r.so))
    ELSE LET moved == SubSeq(ns[r.sc].children, r.so + 1, r.eo)
             ns1 == RemoveChildren(ns, r.sc, r.so, r.eo)
         IN  Dom([SetParents(ns1, moved, into) EXCEPT ![into].children = moved],
                 Caret(r.sc, r.so))

\* Node.textContent: the text of the node's descendants in document order.
RECURSIVE TextContent(_, _)
RECURSIVE TextOfAll(_, _)
TextContent(ns, id) ==
    IF IsText(ns, id) THEN ns[id].data ELSE TextOfAll(ns, ns[id].children)

TextOfAll(ns, ids) ==
    IF ids = <<>>
    THEN <<>>
    ELSE TextContent(ns, Head(ids)) \o TextOfAll(ns, Tail(ids))

\* String.prototype.trim() strips white space, U+00A0 included;
\* s.trim().length > 0 iff some character of s is not white space.
IsWhiteSpace(c) == c \in {" ", NBSP}

TrimmedNonEmpty(s) == \E k \in 1 .. Len(s) : ~IsWhiteSpace(s[k])

\* The block elements the editor has or creates: the JSX children h1 and p
\* (lines 485-486) and the targets of formatBlock (lines 49-51, 191).
BlockTags == {"p", "h1", "h2", "h3"}

\* The nearest block of a node: the node itself or its closest ancestor that
\* is a block element, or the editor when there is none.
RECURSIVE BlockOf(_, _)
BlockOf(ns, id) ==
    IF id = EditorId \/ ns[id].tag \in BlockTags \/ ns[id].parent = Null
    THEN id
    ELSE BlockOf(ns, ns[id].parent)

\* The child of block through which node id hangs below it.
RECURSIVE TopChild(_, _, _)
TopChild(ns, id, block) ==
    IF ns[id].parent = block THEN id ELSE TopChild(ns, ns[id].parent, block)

\* A line of a block ends at a br and at a nested block.
IsLineBreak(ns, id) == ns[id].tag = "br" \/ ns[id].tag \in BlockTags

\* The boundaries (as child offsets of block) of the line around the child
\* offsets [from, to].
LineStart(ns, block, from) ==
    LET breaks == {j \in 1 .. from : IsLineBreak(ns, ns[block].children[j])}
    IN  IF breaks = {} THEN 0 ELSE CHOOSE j \in breaks : \A i \in breaks : i <= j

LineEnd(ns, block, to) ==
    LET count == Len(ns[block].children)
        breaks == {j \in (to + 1) .. count : IsLineBreak(ns, ns[block].children[j])}
    IN  IF breaks = {}
        THEN count
        ELSE (CHOOSE j \in breaks : \A i \in breaks : j <= i) - 1

\* document.execCommand('formatBlock', false, '<tag>') on a range within one
\* container: a block that holds nothing but the selected line gets the tag;
\* otherwise the line (the children of its block between line breaks) moves
\* into a new block element with the tag, put in its place. Without a
\* selection, and for a line with no content, the document is left as it is.
FormatBlock(ns, r, tag) ==
    IF r = NoRange
    THEN Dom(ns, r)
    ELSE LET block == BlockOf(ns, r.sc)
             inBlock == r.sc = block
             from == IF inBlock
                     THEN r.so
                     ELSE ChildIndex(ns, TopChild(ns, r.sc, block))
             to == IF inBlock THEN r.eo ELSE from + 1
             a == LineStart(ns, block, from)
             b == LineEnd(ns, block, to)
             new == Len(ns) + 1
             moved == SubSeq(ns[block].children, a + 1, b)
             ns1 == RemoveChildren(Append(ns, Element(tag, NoStyle)), block, a, b)
             ns2 == [SetParents(ns1, moved, new) EXCEPT ![new].children = moved]
         IN  IF IsText(ns, block) \/ a >= b
             THEN Dom(ns, r)
             ELSE IF a = 0 /\ b = Len(ns[block].children) /\ block # EditorId
             THEN Dom([ns EXCEPT ![block].tag = tag], r)
             ELSE Dom(InsertChild(ns2, block, a, new),
                      IF inBlock
                      THEN Range(new, r.so - a, new, r.eo - a)
                      ELSE r)

\* The inline style of every element at or below the nodes of ids is cleared.
RECURSIVE ClearStyles(_, _)
ClearStyles(ns, ids) ==
    IF ids = <<>>
    THEN ns
    ELSE LET id == Head(ids)
             ns1 == IF IsText(ns, id)
                    THEN ns
                    ELSE ClearStyles([ns EXCEPT ![id].style = NoStyle],
                                     ns[id].children)
         IN  ClearStyles(ns1, Tail(ids))

\* document.execCommand('removeFormat') on a range within one container: the
\* elements the range contains lose their inline style; a caret, and a range
\* inside one text node, contain no element.
RemoveFormat(ns, r) ==
    IF r = NoRange \/ IsCollapsed(r) \/ IsText(ns, r.sc)
    THEN ns
    ELSE ClearStyles(ns, SubSeq(ns[r.sc].children, r.so + 1, r.eo))

----------------------------------------------------------------------------
(* Palette Manager: moveColor, updateColor, handleDrop *)

\* Mutant of MoveColorResult: the neighbour is copied over the entry and the
\* entry is not written back.
MoveColorCopies(arr, index, direction) ==
    LET newIndex == IF direction = "up" THEN index - 1 ELSE index + 1
    IN  IF newIndex < 0 \/ newIndex >= Len(arr)
        THEN arr
        ELSE SetAt(arr, index, At(arr, newIndex))

\* moveColor (lines 242-248): the palette after moveColor(index, direction).
MoveColorResult(arr, index, direction) ==
    LET newIndex == IF direction = "up" THEN index - 1 ELSE index + 1
    IN  IF newIndex < 0 \/ newIndex >= Len(arr)
        THEN arr
        ELSE SetAt(SetAt(arr, index, At(arr, newIndex)), newIndex, At(arr, index))

\* Mutant of DropResult: the two entries are swapped.
DropResultSwap(arr, dragged, index) ==
    SetAt(SetAt(arr, dragged, At(arr, index)), index, At(arr, dragged))

\* handleDrop (lines 328-331): remove the dragged colour, re-insert it at index.
DropResult(arr, dragged, index) ==
    LET draggedColor == At(arr, dragged)
        removed == Splice(arr, dragged, 1, <<>>)
    IN  Splice(removed, index, 0, <<draggedColor>>)

\* Mutant of UpdateColorResult: the value is inserted before the entry.
UpdateColorInserts(arr, index, value) == Splice(arr, index, 0, <<value>>)

\* updateColor (lines 250-253): the palette with newColors[index] = value.
UpdateColorResult(arr, index, value) == SetAt(arr, index, value)

moveColor(index, direction) ==
    /\ colors' = MoveColorResult(colors, index, direction)
    /\ PaletteEvent
    /\ UNCHANGED <<editingIndex, draggedIndex, dropPosition, activeColorIndex,
                   holdTimeoutRef, timers, pointer>>
    /\ UNCHANGED editorVars

\* onChange of the colour input, rendered only for the entry being edited
\* (line 510): handleColorInputChange -> updateColor.
handleColorInputChange(index, value) ==
    /\ editingIndex = index
    /\ colors' = UpdateColorResult(colors, index, value)
    /\ editingIndex' = Null
    /\ PaletteEvent
    /\ UNCHANGED <<draggedIndex, dropPosition, activeColorIndex,
                   holdTimeoutRef, timers, pointer>>
    /\ UNCHANGED editorVars

\* onBlur of the colour input (line 516).
handleBlur ==
    /\ editingIndex # Null
    /\ editingIndex' = Null
    /\ PaletteEvent
    /\ UNCHANGED <<colors, draggedIndex, dropPosition, activeColorIndex,
                   holdTimeoutRef, timers, pointer>>
    /\ UNCHANGED editorVars

----------------------------------------------------------------------------
(* Gesture Disambiguator: the long-press timer and the drag handlers *)

\* The host delivers pointer and drag events of the palette in sessions, which
\* pointer tracks: mouse events come while no drag is in progress ("up": no
\* button is held on an entry, "down": one is), a press on a draggable entry
\* can turn into a drag of that entry ("drag"), and something dragged from
\* outside the palette can be moved over its entries ("extdrag"); while a drag
\* is in progress the host sends drag events and no mouse events.
MouseStates == {"up", "down"}

DragStates == {"drag", "extdrag"}

TimerIds == {t.id : t \in timers}

\* setTimeout returns an id no pending timer has; the id still stored in
\* holdTimeoutRef (possibly of a timer that already fired) is not reused.
NewTimerId ==
    CHOOSE n \in 1 .. (Cardinality(timers) + 2) :
        n \notin TimerIds /\ n # holdTimeoutRef

\* Mutant of ClearTimeout: the timer stays pending.
ClearTimeoutKeeps(ts, id) == ts

\* clearTimeout(id): a pending timer with that id is dropped, any other id
\* (null, a fired timer) has no effect.
ClearTimeout(ts, id) == {t \in ts : t.id # id}

\* startEditing (lines 257-261); the deferred click on the colour input opens
\* the host's picker and writes no component state.
startEditing(index) == editingIndex' = index

\* Mutant of handleMouseDown: the pending timer is not cleared first.
handleMouseDownArmsOnly(index) ==
    LET id == NewTimerId
    IN  /\ pointer \in MouseStates
        /\ pointer' = "down"
        /\ timers' = timers \cup {[id |-> id, index |-> index, elapsed |-> 0]}
        /\ holdTimeoutRef' = id
        /\ PaletteEvent
        /\ UNCHANGED <<colors, editingIndex, draggedIndex, dropPosition,
                       activeColorIndex>>
        /\ UNCHANGED editorVars

handleMouseDown(index) ==
    LET cleared == IF holdTimeoutRef # Null
                   THEN ClearTimeout(timers, holdTimeoutRef)
                   ELSE timers
        id == NewTimerId
    IN  /\ pointer \in MouseStates
        /\ pointer' = "down"
        /\ timers' = cleared \cup {[id |-> id, index |-> index, elapsed |-> 0]}
        /\ holdTimeoutRef' = id
        /\ PaletteEvent
        /\ UNCHANGED <<colors, editingIndex, draggedIndex, dropPosition,
                       activeColorIndex>>
        /\ UNCHANGED editorVars

\* onMouseUp and onMouseLeave of a palette entry (lines 507-508).
handleMouseUp ==
    /\ pointer \in MouseStates
    /\ pointer' = "up"
    /\ IF holdTimeoutRef # Null
       THEN /\ timers' = ClearTimeout(timers, holdTimeoutRef)
            /\ holdTimeoutRef' = Null
       ELSE UNCHANGED <<timers, holdTimeoutRef>>
    /\ PaletteEvent
    /\ UNCHANGED <<colors, editingIndex, draggedIndex, dropPosition,
                   activeColorIndex>>
    /\ UNCHANGED editorVars

\* Time passes by TickMs for every pending timer; a timer that is due runs
\* before more time passes.
Tick ==
    /\ timers # {}
    /\ \A t \in timers : t.elapsed < HoldMs
    /\ timers' = {[t EXCEPT !.elapsed = t.elapsed + TickMs] : t \in timers}
    /\ UNCHANGED nEvents
    /\ UNCHANGED <<colors, editingIndex, draggedIndex, dropPosition,
                   activeColorIndex, holdTimeoutRef, pointer>>
    /\ UNCHANGED editorVars

\* The callback of handleMouseDown's setTimeout (lines 272-274) runs once its
\* delay has elapsed; holdTimeoutRef keeps the id of the fired timer.
HoldTimerFires ==
    \E t \in timers :
        /\ t.elapsed >= HoldMs
        /\ timers' = timers \ {t}
        /\ startEditing(t.index)
        /\ UNCHANGED nEvents
        /\ UNCHANGED <<colors, draggedIndex, dropPosition, activeColorIndex,
                       holdTimeoutRef, pointer>>
        /\ UNCHANGED editorVars

\* Mutant of handleDragStart: the hold timer is left pending.
handleDragStartKeepsTimer(index) ==
    /\ pointer = "down"
    /\ pointer' = "drag"
    /\ draggedIndex' = index
    /\ dropPosition' = Null
    /\ PaletteEvent
    /\ UNCHANGED <<colors, editingIndex, activeColorIndex, holdTimeoutRef,
                   timers>>
    /\ UNCHANGED editorVars

\* handleDragStart (lines 284-309): the host starts a drag from a press on a
\* draggable entry; the drag image is a host element outside the component
\* state.
handleDragStart(index) ==
    /\ pointer = "down"
    /\ pointer' = "drag"
    /\ IF holdTimeoutRef # Null
       THEN /\ timers' = ClearTimeout(timers, holdTimeoutRef)
            /\ holdTimeoutRef' = Null
       ELSE UNCHANGED <<timers, holdTimeoutRef>>
    /\ draggedIndex' = index
    /\ dropPosition' = Null
    /\ PaletteEvent
    /\ UNCHANGED <<colors, editingIndex, activeColorIndex>>
    /\ UNCHANGED editorVars

\* handleDragOver (lines 311-315); a dragover with no button held on an entry
\* is the first event of a drag that comes from outside the palette.
handleDragOver(index) ==
    /\ pointer \in DragStates \cup {"up"}
    /\ pointer' = IF pointer = "up" THEN "extdrag" ELSE pointer
    /\ dropPosition' = index
    /\ PaletteEvent
    /\ UNCHANGED <<colors, editingIndex, draggedIndex, activeColorIndex,
                   holdTimeoutRef, timers>>
    /\ UNCHANGED editorVars

handleDragLeave ==
    /\ pointer \in DragStates
    /\ UNCHANGED pointer
    /\ dropPosition' = Null
    /\ PaletteEvent
    /\ UNCHANGED <<colors, editingIndex, draggedIndex, activeColorIndex,
                   holdTimeoutRef, timers>>
    /\ UNCHANGED editorVars

\* Mutant of handleDrop: the early return does not clear the drop target.
handleDropEarlyReturn(index) ==
    /\ pointer \in DragStates
    /\ pointer' = "up"
    /\ IF draggedIndex = Null \/ draggedIndex = index
       THEN UNCHANGED <<colors, dropPosition>>
       ELSE /\ colors' = DropResult(colors, draggedIndex, index)
            /\ dropPosition' = Null
    /\ draggedIndex' = Null
    /\ PaletteEvent
    /\ UNCHANGED <<editingIndex, activeColorIndex, holdTimeoutRef, timers>>
    /\ UNCHANGED editorVars

\* handleDrop (lines 321-335).
handleDrop(index) ==
    /\ pointer \in DragStates
    /\ pointer' = "up"
    /\ IF draggedIndex = Null \/ draggedIndex = index
       THEN UNCHANGED colors
       ELSE colors' = DropResult(colors, draggedIndex, index)
    /\ draggedIndex' = Null
    /\ dropPosition' = Null
    /\ PaletteEvent
    /\ UNCHANGED <<editingIndex, activeColorIndex, holdTimeoutRef, timers>>
    /\ UNCHANGED editorVars

\* A drag ends without a drop on an entry (released outside every entry, or
\* cancelled): the host sends dragleave to the entry the pointer was over
\* (handleDragLeave) and then dragend, to which the entries bind no handler
\* (lines 497-509).
DragEndsWithoutDrop ==
    /\ pointer \in DragStates
    /\ pointer' = "up"
    /\ dropPosition' = Null
    /\ PaletteEvent
    /\ UNCHANGED <<colors, editingIndex, draggedIndex, activeColorIndex,
                   holdTimeoutRef, timers>>
    /\ UNCHANGED editorVars

----------------------------------------------------------------------------
(* The host: focus, selection, command state, resolved styles *)

FormatNames ==
    {"bold", "italic", "underline", "strikethrough",
     "insertUnorderedList", "insertOrderedList"}

\* The inline formats among them (the toolbar group of lines 351-380).
InlineFormats == {"bold", "italic", "underline", "strikethrough"}

\* editorRef.current?.focus(): a live selection is kept; with no selection the
\* host either leaves none or puts the caret at the start of the editor (in
\* the editor element or in its first text node, depending on the host).
FocusOutcomes(ns, sel) ==
    IF sel # NoRange
    THEN {sel}
    ELSE {NoRange, Caret(EditorId, 0)}
         \cup {Caret(t, 0) : t \in {n \in DOMAIN ns :
                    /\ IsText(ns, n)
                    /\ ns[n].parent # Null
                    /\ ns[ns[n].parent].parent = EditorId
                    /\ ChildIndex(ns, ns[n].parent) = 0
                    /\ ChildIndex(ns, n) = 0}}

\* The font size CSS resolves for a connected node, in pt: its inline
\* font-size if set, else the inherited size, which the host's style sheet
\* doubles for h1 and multiplies by 1.5 for h2; the editor root has the
\* host's default of 16px = 12pt.
RECURSIVE ResolvedPt(_, _)
ResolvedPt(ns, id) ==
    IF ns[id].style.fontSize # Null
    THEN ns[id].style.fontSize
    ELSE IF ns[id].parent = Null
    THEN 12
    ELSE IF ns[id].tag = "h1"
    THEN 2 * ResolvedPt(ns, ns[id].parent)
    ELSE IF ns[id].tag = "h2"
    THEN (3 * ResolvedPt(ns, ns[id].parent)) \div 2
    ELSE ResolvedPt(ns, ns[id].parent)

\* window.getComputedStyle(el).fontSize as a number of thirds of a pixel
\* (1pt = 4/3 px, so n pt is 4n thirds), or Null for the empty string the host
\* reports for an element that is not connected to the document.
ComputedFontSize(ns, id) ==
    IF IsConnected(ns, id) THEN 4 * ResolvedPt(ns, id) ELSE Null

\* 0-based offset of the first white-space character of a text that has one.
FirstSpace(data) ==
    (CHOOSE k \in 1 .. Len(data) :
        /\ IsWhiteSpace(data[k])
        /\ \A j \in 1 .. (k - 1) : ~IsWhiteSpace(data[j])) - 1

\* The ranges a user can select in the editor by pointer or keyboard: a caret
\* at either end of a text node, a whole text node, the inner part [1, 3) of a
\* text node, the first white-space character of a text node, and the
\* contents of an element inside the editor.
SelectableRanges(ns) ==
    LET connected == {n \in DOMAIN ns : n # EditorId /\ IsConnected(ns, n)}
        texts == {n \in connected : IsText(ns, n) /\ Len(ns[n].data) > 0}
        spaced == {n \in texts : \E k \in 1 .. Len(ns[n].data) :
                                    IsWhiteSpace(ns[n].data[k])}
        elems == {n \in connected : ~IsText(ns, n) /\ Len(ns[n].children) > 0}
    IN  {Caret(t, 0) : t \in texts}
        \cup {Caret(t, Len(ns[t].data)) : t \in texts}
        \cup {Range(t, 0, t, Len(ns[t].data)) : t \in texts}
        \cup {Range(t, 1, t, 3) : t \in {n \in texts : Len(ns[n].data) > 3}}
        \cup {Range(t, FirstSpace(ns[t].data), t, FirstSpace(ns[t].data) + 1) :
                    t \in spaced}
        \cup {Range(e, 0, e, Len(ns[e].children)) : e \in elems}

----------------------------------------------------------------------------
(* Formatting Command Dispatcher *)

\* updateActiveFormats (lines 30-39): FormatState as document.queryCommandState
\* reports it now.
updateActiveFormats == activeFormats' = hostFormats

\* Mutant of ExecCommand: the format is switched on, never off.
ExecCommandSets(formats, sel, command) ==
    IF sel # NoRange
    THEN [formats EXCEPT ![command] = TRUE]
    ELSE formats

\* document.execCommand(command) for a format of FormatNames: with a live
\* selection the host toggles the format there, with none it does nothing.
ExecCommand(formats, sel, command) ==
    IF sel # NoRange
    THEN [formats EXCEPT ![command] = ~@]
    ELSE formats

\* applyStyle(command) (lines 41-45) of the toolbar buttons and of
\* Ctrl/Cmd+B/I/U: the command runs on the selection as it is, then the editor
\* is focused and the refresh of FormatState is deferred.
applyStyle(command) ==
    /\ hostFormats' = ExecCommand(hostFormats, selection, command)
    /\ selection' \in FocusOutcomes(nodes, selection)
    /\ tasks' = Append(tasks, "updateActiveFormats")
    /\ InputEvent
    /\ UNCHANGED <<paletteVars, cCounter, iCounter, justInsertedSnippet,
                   activeFormats, nodes, foreColor, snippetLog>>

\* handleColorSelect (lines 72-78) with applyStyle('foreColor', color)
\* (lines 41-45): the editor is focused, the host applies the colour to a live
\* selection, the refresh of FormatState is deferred.
handleColorSelect(color, index) ==
    /\ \E sel \in FocusOutcomes(nodes, selection) :
        /\ selection' = sel
        /\ foreColor' = IF sel # NoRange THEN color ELSE foreColor
    /\ tasks' = Append(tasks, "updateActiveFormats")
    /\ activeColorIndex' = index
    /\ InputEvent
    /\ UNCHANGED <<colors, editingIndex, draggedIndex, dropPosition,
                   holdTimeoutRef, timers, pointer, cCounter, iCounter,
                   justInsertedSnippet, activeFormats, nodes, hostFormats,
                   snippetLog>>

\* onClick of a palette button, rendered for every entry that is not being
\* edited (lines 510-527).
handleColorClick(index) ==
    /\ editingIndex # index
    /\ handleColorSelect(At(colors, index), index)

\* Ctrl/Cmd+Shift+J and Ctrl/Cmd+Shift+K (lines 210-215): index 0 and 1.
handleColorShortcut(index) == handleColorSelect(At(colors, index), index)

\* A deferred callback runs: the zero-delay timers run in the order they were
\* set.
RunTask ==
    /\ tasks # <<>>
    /\ Head(tasks) = "updateActiveFormats"
    /\ updateActiveFormats
    /\ tasks' = Tail(tasks)
    /\ UNCHANGED <<paletteVars, cCounter, iCounter, justInsertedSnippet, nodes,
                   selection, hostFormats, foreColor, snippetLog, nEvents>>

\* The user puts the caret or selects a range in the editor; onMouseUp and
\* onKeyUp of the editor call updateActiveFormats (lines 480-481).
handleEditorSelect(r) ==
    /\ selection # r
    /\ selection' = r
    /\ updateActiveFormats
    /\ InputEvent
    /\ UNCHANGED <<paletteVars, cCounter, iCounter, justInsertedSnippet, nodes,
                   hostFormats, foreColor, tasks, snippetLog>>

\* The levels of the heading buttons the model presses: Paragraph (0),
\* Heading 1 and Heading 2 (lines 385-412).
HeadingLevels == {0, 1, 2}

\* '<p>' for level 0, `<h${level}>` otherwise (lines 48-52).
HeadingTag(level) == IF level = 0 THEN "p" ELSE <<"h1", "h2", "h3">>[level]

\* applyHeading (lines 47-54): formatBlock on the selection as it is, then the
\* editor is focused; no refresh of FormatState is deferred. The host reports
\* a change of the document by an input event, whose handler is
\* updateActiveFormats (line 479).
applyHeading(level) ==
    LET d == FormatBlock(nodes, selection, HeadingTag(level))
    IN  /\ nodes' = d.nodes
        /\ selection' \in FocusOutcomes(d.nodes, d.range)
        /\ activeFormats' = IF d.nodes # nodes THEN hostFormats ELSE activeFormats
        /\ InputEvent
        /\ UNCHANGED <<paletteVars, cCounter, iCounter, justInsertedSnippet,
                       hostFormats, foreColor, tasks, snippetLog>>

----------------------------------------------------------------------------
(* Snippet Inserter *)

\* Number-to-string conversion of a template literal, for n >= 0.
DigitChar == <<"0", "1", "2", "3", "4", "5", "6", "7", "8", "9">>

RECURSIVE Digits(_)
Digits(n) ==
    IF n < 10
    THEN <<DigitChar[n + 1]>>
    ELSE Digits(n \div 10) \o <<DigitChar[(n % 10) + 1]>>

\* `C${cCounter}: ` and `I${iCounter}: ` (lines 454, 464).
NumberedText(letter, counter) == <<letter>> \o Digits(counter) \o <<":", " ">>

\* Mutant of NextCounter: the counter keeps its value.
NextCounterStuck(prev) == prev

\* The updater prev => prev + 1 of setCCounter and setICounter (lines 455, 465).
NextCounter(prev) == prev + 1

\* The inline style of the snippet span (lines 110-111).
SnippetStyle == [NoStyle EXCEPT !.fontWeight = "bold", !.fontSize = 20]

\* Lines 88-98: the start container, or its parent for a text node, has text
\* that is not all white space.
HasTextOnLine(ns, r) ==
    LET currentNode == IF IsText(ns, r.sc) THEN ns[r.sc].parent ELSE r.sc
    IN  TrimmedNonEmpty(TextContent(ns, currentNode))

\* Lines 100-121 on the range of a live selection: the line break, the span
\* with its text, and the range collapsed after the span.
InsertSnippetDom(ns, r, text) ==
    LET hasTextOnLine == HasTextOnLine(ns, r)
        br == Len(ns) + 1
        d1 == IF hasTextOnLine
              THEN LET ins == InsertNode(Append(ns, Element("br", NoStyle)), r, br)
                   IN  Dom(ins.nodes, CollapseAfter(ins.nodes, br))
              ELSE Dom(ns, r)
        span == Len(d1.nodes) + 1
        spanText == span + 1
        created == InsertChild(
                       Append(Append(d1.nodes, Element("span", SnippetStyle)),
                              TextNode(text)),
                       span, 0, spanText)
        d2 == DeleteContents(created, d1.range)
        d3 == InsertNode(d2.nodes, d2.range, span)
    IN  Dom(d3.nodes, CollapseAfter(d3.nodes, span))

\* insertSnippet (lines 80-126).
insertSnippet(text) ==
    /\ \E sel \in FocusOutcomes(nodes, selection) :
        IF sel # NoRange
        THEN LET d == InsertSnippetDom(nodes, sel, text)
             IN  nodes' = d.nodes /\ selection' = d.range
        ELSE nodes' = nodes /\ selection' = sel
    /\ justInsertedSnippet' = TRUE
    /\ snippetLog' = Append(snippetLog, text)

\* The toolbar buttons "Insert V:" and "Insert VC:" (lines 437-450).
InsertPlain(text) ==
    /\ insertSnippet(text)
    /\ InputEvent
    /\ UNCHANGED <<paletteVars, cCounter, iCounter, activeFormats, hostFormats,
                   foreColor, tasks>>

\* The toolbar button "Insert C#:" (lines 451-460).
InsertC ==
    /\ insertSnippet(NumberedText("C", cCounter))
    /\ cCounter' = NextCounter(cCounter)
    /\ InputEvent
    /\ UNCHANGED <<paletteVars, iCounter, activeFormats, hostFormats,
                   foreColor, tasks>>

\* The toolbar button "Insert I#:" (lines 461-470).
InsertI ==
    /\ insertSnippet(NumberedText("I", iCounter))
    /\ iCounter' = NextCounter(iCounter)
    /\ InputEvent
    /\ UNCHANGED <<paletteVars, cCounter, activeFormats, hostFormats,
                   foreColor, tasks>>

\* The inline style of the Tab placeholder span (lines 173-176).
TabStyle ==
    [fontWeight |-> "normal", fontSize |-> 15, textDecoration |-> "none",
     fontStyle |-> "normal"]

\* Lines 164-186 on the range of a live selection: the selected content is
\* deleted, a br is inserted, the placeholder span with its non-breaking space
\* is inserted after the br, and the caret goes after the space.
TabDom(ns, r) ==
    LET d1 == DeleteContents(ns, r)
        br == Len(ns) + 1
        d2 == InsertNode(Append(d1.nodes, Element("br", NoStyle)), d1.range, br)
        span == Len(d2.nodes) + 1
        spanText == span + 1
        created == InsertChild(
                       Append(Append(d2.nodes, Element("span", TabStyle)),
                              TextNode(<<NBSP>>)),
                       span, 0, spanText)
        d3 == InsertNode(created, CollapseAfter(created, br), span)
    IN  Dom(d3.nodes, Caret(spanText, 1))

\* handleKeyDown for the Tab key (lines 159-198).
handleTab ==
    /\ IF selection # NoRange
       THEN LET d == TabDom(nodes, selection)
            IN  /\ nodes' = d.nodes
                /\ selection' = d.range
                /\ tasks' = Append(tasks, "resetFormat")
       ELSE /\ selection' \in FocusOutcomes(nodes, selection)
            /\ UNCHANGED <<nodes, tasks>>
    /\ justInsertedSnippet' = FALSE
    /\ InputEvent
    /\ UNCHANGED <<paletteVars, cCounter, iCounter, activeFormats, hostFormats,
                   foreColor, snippetLog>>

\* What queryCommandState reports after execCommand('removeFormat'): with a
\* live selection the host may report the inline formats as off.
RemoveFormatOutcomes(formats, sel) ==
    IF sel = NoRange
    THEN {formats}
    ELSE {formats,
          [f \in FormatNames |-> IF f \in InlineFormats THEN FALSE ELSE formats[f]]}

\* The callback Tab defers (lines 189-192) runs: removeFormat, then
\* formatBlock '<p>', on the selection as it is then. The host reports a
\* change by an input event, whose handler is updateActiveFormats (line 479).
RunResetTask ==
    /\ tasks # <<>>
    /\ Head(tasks) = "resetFormat"
    /\ \E formats \in RemoveFormatOutcomes(hostFormats, selection) :
        LET d == FormatBlock(RemoveFormat(nodes, selection), selection, "p")
        IN  /\ nodes' = d.nodes
            /\ selection' = d.range
            /\ hostFormats' = formats
            /\ activeFormats' = IF d.nodes # nodes \/ formats # hostFormats
                                THEN formats
                                ELSE activeFormats
    /\ tasks' = Tail(tasks)
    /\ UNCHANGED <<paletteVars, cCounter, iCounter, justInsertedSnippet,
                   foreColor, snippetLog, nEvents>>

----------------------------------------------------------------------------
(* Selection-Scoped Font-Size Adjuster *)

\* parseFloat(computedStyle.fontSize) || 16 (line 141), in thirds of a pixel:
\* the empty string parses to NaN and falls back to 16.
CurrentSize(computed) == IF computed = Null THEN 3 * 16 ELSE computed

\* Math.max(8, Math.min(72, pt)) (line 143).
ClampPt(pt) == Max(8, Min(72, pt))

\* Lines 135-145: the size the new span gets. The span holds the extracted
\* contents and is measured before it is inserted into the document;
\* currentSize * 0.75 of a size in thirds of a pixel is a quarter of it.
NewPt(ns, span, delta) ==
    LET currentSize == CurrentSize(ComputedFontSize(ns, span))
        currentPt == currentSize \div 4
    IN  ClampPt(currentPt + delta)

\* Lines 135-152 on a non-collapsed range: the contents move into a new span,
\* the span gets its size and is inserted, the selection is the span's
\* contents.
ChangeFontSizeDom(ns, r, delta) ==
    LET span == Len(ns) + 1
        d1 == ExtractContentsInto(Append(ns, Element("span", NoStyle)), r, span)
        sized == [d1.nodes EXCEPT ![span].style.fontSize =
                                      NewPt(d1.nodes, span, delta)]
        d2 == InsertNode(sized, d1.range, span)
    IN  Dom(d2.nodes, Range(span, 0, span, NodeLength(d2.nodes, span)))

\* Mutant of changeFontSizeBy: the check of range.collapsed is missing.
changeFontSizeByWrapsCaret(delta) ==
    /\ IF selection = NoRange
       THEN UNCHANGED <<nodes, selection>>
       ELSE LET d == ChangeFontSizeDom(nodes, selection, delta)
            IN  nodes' = d.nodes /\ selection' = d.range
    /\ InputEvent
    /\ UNCHANGED <<paletteVars, cCounter, iCounter, justInsertedSnippet,
                   activeFormats, hostFormats, foreColor, tasks, snippetLog>>

\* changeFontSizeBy (lines 128-155), called by Ctrl/Cmd+Shift+, and
\* Ctrl/Cmd+Shift+. with -1 and +1 (lines 204-209).
changeFontSizeBy(delta) ==
    /\ IF selection = NoRange
       THEN UNCHANGED <<nodes, selection>>
       ELSE IF IsCollapsed(selection)
       THEN UNCHANGED <<nodes, selection>>
       ELSE LET d == ChangeFontSizeDom(nodes, selection, delta)
            IN  nodes' = d.nodes /\ selection' = d.range
    /\ InputEvent
    /\ UNCHANGED <<paletteVars, cCounter, iCounter, justInsertedSnippet,
                   activeFormats, hostFormats, foreColor, tasks, snippetLog>>

----------------------------------------------------------------------------
(* Specifications *)

Init ==
    /\ colors = InitColors
    /\ editingIndex = Null
    /\ draggedIndex = Null
    /\ dropPosition = Null
    /\ activeColorIndex = Null
    /\ holdTimeoutRef = Null
    /\ timers = {}
    /\ pointer = "up"
    /\ cCounter = 1
    /\ iCounter = 1
    /\ justInsertedSnippet = FALSE
    /\ activeFormats = [f \in FormatNames |-> FALSE]
    /\ nodes = InitNodes
    /\ selection = NoRange
    /\ hostFormats = [f \in FormatNames |-> FALSE]
    /\ foreColor = ""
    /\ tasks = <<>>
    /\ snippetLog = <<>>
    /\ nEvents = 0

NextPalette ==
    \/ \E i \in Indices(colors), d \in {"up", "down"} : moveColor(i, d)
    \/ \E i \in Indices(colors), v \in EditValues : handleColorInputChange(i, v)
    \/ handleBlur
    \/ \E i \in Indices(colors) : handleMouseDown(i)
    \/ handleMouseUp
    \/ Tick
    \/ HoldTimerFires
    \/ \E i \in Indices(colors) : handleDragStart(i)
    \/ \E i \in Indices(colors) : handleDragOver(i)
    \/ handleDragLeave
    \/ \E i \in Indices(colors) : handleDrop(i)
    \/ DragEndsWithoutDrop
    \/ \E i \in Indices(colors) : handleColorClick(i)
    \/ RunTask

SpecPalette == Init /\ [][NextPalette]_vars

\* The toolbar, the editor's selection and its keyboard shortcuts.
NextEditor ==
    \/ \E r \in SelectableRanges(nodes) : handleEditorSelect(r)
    \/ \E text \in {<<"V", ":", " ">>, <<"V", "C", ":", " ">>} : InsertPlain(text)
    \/ InsertC
    \/ InsertI
    \/ \E delta \in {-1, 1} : changeFontSizeBy(delta)
    \/ \E command \in FormatNames : applyStyle(command)
    \/ \E i \in {0, 1} : handleColorShortcut(i)
    \/ \E level \in HeadingLevels : applyHeading(level)
    \/ handleTab
    \/ RunTask
    \/ RunResetTask

SpecEditor == Init /\ [][NextEditor]_vars

Next == NextPalette \/ NextEditor

Spec == Init /\ [][Next]_vars

----------------------------------------------------------------------------
(* Properties of the palette and its gestures, checked under SpecPalette *)

\* The array without its element at index i.
Without(arr, i) == SubSeq(arr, 1, i) \o SubSeq(arr, i + 2, Len(arr))

\* The multiset of the values of an array.
BagOf(arr) ==
    [v \in {arr[k] : k \in 1 .. Len(arr)} |->
        Cardinality({k \in 1 .. Len(arr) : arr[k] = v})]

\* C1: a drop on entry t of a drag started on entry s # t moves the colour of
\* s to index t, shifts the entries between them by one toward s and keeps
\* every other entry in place; (2, 5) on the seed palette [A,B,C,D,E,F,G,H]
\* gives [A,B,D,E,F,C,G,H].
C1_DropSplices ==
    [][\A t \in Indices(colors) :
        (handleDrop(t) /\ draggedIndex # Null /\ draggedIndex # t) =>
            LET s == draggedIndex
            IN  /\ Len(colors') = Len(colors)
                /\ At(colors', t) = At(colors, s)
                /\ \A k \in Indices(colors) \ {t} :
                    At(colors', k) =
                        IF s < t /\ s <= k /\ k < t THEN At(colors, k + 1)
                        ELSE IF t < s /\ t < k /\ k <= s THEN At(colors, k - 1)
                        ELSE At(colors, k)
                /\ (s = 2 /\ t = 5 /\ colors = InitColors) =>
                    colors' = <<"#000000", "#FF0000", "#0070C0", "#FFD966",
                                "#FF6B6B", "#00B050", "#4ECDC4", "#95E1D3">>]_vars

\* The seed palette after a drag of entry 2 dropped on entry 5.
C1_Witness ==
    /\ nEvents = 3
    /\ draggedIndex = Null
    /\ colors = <<"#000000", "#FF0000", "#0070C0", "#FFD966",
                  "#FF6B6B", "#00B050", "#4ECDC4", "#95E1D3">>

\* C2: the palette always has exactly 8 entries, and a moveColor or a drop
\* only permutes it (the multiset of its values is unchanged).
C2_LengthAndPermutation ==
    /\ [](Len(colors) = 8)
    /\ [][((\E i \in Indices(colors), d \in {"up", "down"} : moveColor(i, d))
            \/ (\E t \in Indices(colors) : handleDrop(t)))
          => BagOf(colors') = BagOf(colors)]_vars

\* Entry 0 was edited to a new value and then moved down.
C2_Witness ==
    /\ At(colors, 0) = "#FF0000"
    /\ At(colors, 1) = "#123456"
    /\ editingIndex = Null

\* C3: Editing is entered only by the hold timer of a press that lasted 500
\* time units without a pointer-up, pointer-leave or drag-start, and then for
\* the pressed entry; a pointer-up or pointer-leave leaves no timer pending; a
\* timer that is due ends only by one of those events, a new press, or by
\* setting editingIndex to its entry, and time does not pass while it is due.
C3_LongPress ==
    /\ [][(editingIndex' # editingIndex /\ editingIndex' # Null) =>
            \E t \in timers :
                /\ t.elapsed >= HoldMs
                /\ t.id = holdTimeoutRef
                /\ t \notin timers'
                /\ editingIndex' = t.index]_vars
    /\ [][handleMouseUp => timers' = {}]_vars
    /\ [][\A t \in timers :
            (t.elapsed >= HoldMs /\ t \notin timers') =>
                \/ editingIndex' = t.index
                \/ handleMouseUp
                \/ \E i \in Indices(colors) : handleDragStart(i)
                \/ \E i \in Indices(colors) : handleMouseDown(i)]_vars
    /\ [](\A t \in timers : t.elapsed < HoldMs + TickMs)

\* The press on entry 3 was held until its timer fired.
C3_Witness ==
    /\ editingIndex = 3
    /\ holdTimeoutRef # Null
    /\ timers = {}

\* C4: a drop always clears draggedIndex and dropPosition; on the drag source
\* or without a drag source it leaves the palette unchanged; on any other
\* entry t it commits the reorder: the dragged colour is at t and the rest of
\* the palette is in its previous order.
C4_DropFrame ==
    [][\A t \in Indices(colors) :
        handleDrop(t) =>
            /\ draggedIndex' = Null
            /\ dropPosition' = Null
            /\ (draggedIndex = Null \/ draggedIndex = t) => colors' = colors
            /\ (draggedIndex # Null /\ draggedIndex # t) =>
                /\ At(colors', t) = At(colors, draggedIndex)
                /\ Without(colors', t) = Without(colors, draggedIndex)]_vars

\* Entry 0 was dragged over entry 7 and dropped there.
C4_Witness ==
    /\ nEvents = 4
    /\ draggedIndex = Null
    /\ dropPosition = Null
    /\ colors = <<"#FF0000", "#00B050", "#0070C0", "#FFD966",
                  "#FF6B6B", "#4ECDC4", "#95E1D3", "#000000">>

\* C5: moveColor(0, up) and moveColor(7, down) leave the palette unchanged;
\* with an in-bounds neighbour moveColor swaps the two adjacent entries and
\* nothing else; after moveColor(i, up), moveColor(i - 1, down) gives the
\* palette from before.
C5_MoveColor ==
    [][\A i \in Indices(colors), d \in {"up", "down"} :
        moveColor(i, d) =>
            LET j == IF d = "up" THEN i - 1 ELSE i + 1
            IN  /\ ((i = 0 /\ d = "up") \/ (i = 7 /\ d = "down")) =>
                    colors' = colors
                /\ j \in Indices(colors) =>
                    /\ At(colors', i) = At(colors, j)
                    /\ At(colors', j) = At(colors, i)
                    /\ \A k \in Indices(colors) \ {i, j} :
                        At(colors', k) = At(colors, k)
                /\ (d = "up" /\ i >= 1) =>
                    MoveColorResult(colors', i - 1, "down") = colors]_vars

\* One moveColor swapped entries 3 and 4 of the seed palette.
C5_Witness ==
    /\ nEvents = 1
    /\ colors = <<"#000000", "#FF0000", "#00B050", "#FFD966",
                  "#0070C0", "#FF6B6B", "#4ECDC4", "#95E1D3">>

\* C6: an edit of the colour at index i sets position i to the new value and
\* keeps every other position; neither the edit nor a moveColor nor a drop
\* changes activeColorIndex.
C6_EditFrame ==
    /\ [][\A i \in Indices(colors), v \in EditValues :
            handleColorInputChange(i, v) =>
                /\ At(colors', i) = v
                /\ \A k \in Indices(colors) \ {i} : At(colors', k) = At(colors, k)
                /\ Len(colors') = Len(colors)
                /\ activeColorIndex' = activeColorIndex]_vars
    /\ [][((\E i \in Indices(colors), d \in {"up", "down"} : moveColor(i, d))
            \/ (\E t \in Indices(colors) : handleDrop(t)))
          => activeColorIndex' = activeColorIndex]_vars

\* Entry 3 was applied (so it is the active colour) and then edited.
C6_Witness ==
    /\ activeColorIndex = 3
    /\ At(colors, 3) = "#123456"
    /\ editingIndex = Null

\* C16: every end of an interaction on the palette (pointer-up or
\* pointer-leave, a drop on an entry, a drag that ends without a drop on an
\* entry) leaves no long-press timer pending, no drag source and no drop
\* target.
C16_GestureCleared ==
    [][(handleMouseUp \/ DragEndsWithoutDrop
            \/ \E t \in Indices(colors) : handleDrop(t))
        => /\ timers' = {}
           /\ draggedIndex' = Null
           /\ dropPosition' = Null]_vars

\* C17: drag-start on entry i leaves no timer pending and makes i the drag
\* source without entering Editing; while the entry is dragged no timer is
\* pending and Editing is not entered; Editing is entered only by a timer
\* that is still pending when it is due, never by a cancelled one.
C17_DragStartCancels ==
    /\ [][\A i \in Indices(colors) :
            handleDragStart(i) =>
                /\ timers' = {}
                /\ holdTimeoutRef' = Null
                /\ draggedIndex' = i
                /\ editingIndex' = editingIndex]_vars
    /\ [][pointer = "drag" =>
            /\ timers' = {}
            /\ editingIndex' \in {editingIndex, Null}]_vars
    /\ [][(editingIndex' # editingIndex /\ editingIndex' # Null) =>
            \E t \in timers : t.elapsed >= HoldMs /\ editingIndex' = t.index]_vars

\* Entry 2 was pressed and the press turned into a drag before the timer ran.
C17_Witness ==
    /\ nEvents = 2
    /\ pointer = "drag"
    /\ draggedIndex = 2
    /\ timers = {}
    /\ holdTimeoutRef = Null
    /\ editingIndex = Null

\* C20: at most one long-press timer is pending, and it is the one
\* holdTimeoutRef holds; a pointer-down on entry i leaves exactly the new
\* timer of i pending, so the timer that runs enters Editing for the entry
\* pressed last.
C20_OneTimer ==
    /\ [](Cardinality(timers) <= 1)
    /\ [](\A t \in timers : t.id = holdTimeoutRef)
    /\ [][\A i \in Indices(colors) :
            handleMouseDown(i) =>
                timers' = {[id |-> holdTimeoutRef', index |-> i, elapsed |-> 0]}]_vars
    /\ [][HoldTimerFires =>
            \E t \in timers : timers = {t} /\ editingIndex' = t.index]_vars

\* Entry 5 was pressed while the timer of an earlier press was pending (the
\* new timer got the second id), and its timer has run.
C20_Witness ==
    /\ nEvents = 2
    /\ editingIndex = 5
    /\ holdTimeoutRef = 2
    /\ timers = {}

----------------------------------------------------------------------------
(* Properties of the editor commands, checked under SpecEditor *)

\* The texts of one numbered family among the calls of insertSnippet.
FamilyLog(letter) == SelectSeq(snippetLog, LAMBDA text : text[1] = letter)

\* C7: the k-th insert of a numbered family (C or I) uses the number k,
\* whatever else is inserted in between, and no counter ever decreases.
C7_ConsecutiveNumbers ==
    /\ [](\A letter \in {"C", "I"} :
            \A k \in 1 .. Len(FamilyLog(letter)) :
                FamilyLog(letter)[k] = <<letter>> \o Digits(k) \o <<":", " ">>)
    /\ [][cCounter' >= cCounter /\ iCounter' >= iCounter]_vars

\* C, I, C were inserted in this order.
C7_Witness ==
    snippetLog = << <<"C", "1", ":", " ">>, <<"I", "1", ":", " ">>,
                    <<"C", "2", ":", " ">> >>

\* The connected spans a step added to the document.
NewSpans ==
    {n \in DOMAIN nodes' \ DOMAIN nodes :
        nodes'[n].tag = "span" /\ IsConnected(nodes', n)}

\* C8: a snippet counter changes only in a step that inserted its numbered
\* snippet into the document.
C8_CounterOnlyOnInsert ==
    [][/\ cCounter' # cCounter =>
            \E n \in NewSpans :
                TextContent(nodes', n) = NumberedText("C", cCounter)
       /\ iCounter' # iCounter =>
            \E n \in NewSpans :
                TextContent(nodes', n) = NumberedText("I", iCounter)]_vars

\* The element whose style the text at the start of a range has.
SelectionElement(ns, r) == IF IsText(ns, r.sc) THEN ns[r.sc].parent ELSE r.sc

\* C9: changeFontSizeBy(d) on a non-empty selection whose resolved size is s
\* points gives the span it wraps the selection in the size clamp(s + d, 8, 72).
C9_ResolvedSizePlusDelta ==
    [][\A d \in {-1, 1} :
        (changeFontSizeBy(d) /\ selection # NoRange /\ ~IsCollapsed(selection)) =>
            LET s == ResolvedPt(nodes, SelectionElement(nodes, selection))
            IN  nodes'[selection'.sc].style.fontSize = Max(8, Min(72, s + d))]_vars

\* The text nodes below a node.
RECURSIVE TextsBelow(_, _)
RECURSIVE TextsBelowAll(_, _)
TextsBelow(ns, id) ==
    IF IsText(ns, id) THEN {id} ELSE TextsBelowAll(ns, ns[id].children)

TextsBelowAll(ns, ids) ==
    IF ids = <<>>
    THEN {}
    ELSE TextsBelow(ns, Head(ids)) \cup TextsBelowAll(ns, Tail(ids))

\* The resolved sizes of the text a range within one element covers.
SelectedSizes(d) ==
    {ResolvedPt(d.nodes, d.nodes[t].parent) :
        t \in TextsBelow(d.nodes, d.range.sc)}

\* C10: after changeFontSizeBy(a), a changeFontSizeBy(b) leaves the selected
\* text with the size a single changeFontSizeBy(a + b) on the original
\* selection gives it, when neither step crosses 8 or 72.
C10_DeltasCompose ==
    [][\A a \in {-1, 1} :
        (changeFontSizeBy(a) /\ selection # NoRange /\ ~IsCollapsed(selection)) =>
            \A b \in {-1, 1} :
                LET s == ResolvedPt(nodes, SelectionElement(nodes, selection))
                    two == ChangeFontSizeDom(nodes', selection', b)
                    one == ChangeFontSizeDom(nodes, selection, a + b)
                IN  (s + a \in 8 .. 72 /\ s + a + b \in 8 .. 72) =>
                        SelectedSizes(two) = SelectedSizes(one)]_vars

\* The connected line breaks a step added to the document.
NewBreaks ==
    {n \in DOMAIN nodes' \ DOMAIN nodes :
        nodes'[n].tag = "br" /\ IsConnected(nodes', n)}

\* A step of insertSnippet: every call is logged.
SnippetStep == Len(snippetLog') > Len(snippetLog)

\* C12: insertSnippet at a caret (with no deferred callback pending) inserts
\* exactly one line break, directly before the snippet span, when the nearest
\* block of the caret contains text that is not white space, and no line
\* break when that block is empty or holds only white space, wherever in the
\* block the caret is.
C12_LineBreakRule ==
    [][(SnippetStep /\ selection # NoRange /\ IsCollapsed(selection)
            /\ tasks = <<>>) =>
        LET block == BlockOf(nodes, selection.sc)
            hasText == TrimmedNonEmpty(TextContent(nodes, block))
        IN  /\ Cardinality(NewBreaks) = IF hasText THEN 1 ELSE 0
            /\ \A br \in NewBreaks : \E span \in NewSpans :
                    /\ nodes'[br].parent = nodes'[span].parent
                    /\ ChildIndex(nodes', span) = ChildIndex(nodes', br) + 1]_vars

\* The text of the document before a node, and before a boundary point.
RECURSIVE TextBeforeNode(_, _)
TextBeforeNode(ns, id) ==
    IF ns[id].parent = Null
    THEN <<>>
    ELSE TextBeforeNode(ns, ns[id].parent)
            \o TextOfAll(ns, SubSeq(ns[ns[id].parent].children, 1,
                                    ChildIndex(ns, id)))

TextBefore(ns, c, o) ==
    TextBeforeNode(ns, c)
        \o (IF IsText(ns, c)
            THEN SubSeq(ns[c].data, 1, o)
            ELSE TextOfAll(ns, SubSeq(ns[c].children, 1, o)))

\* The text a range within one container selects.
SelectedText(ns, r) ==
    IF IsText(ns, r.sc)
    THEN SubSeq(ns[r.sc].data, r.so + 1, r.eo)
    ELSE TextOfAll(ns, SubSeq(ns[r.sc].children, r.so + 1, r.eo))

\* C13: insertSnippet with a non-empty selection replaces the selected
\* content by the snippet span: the text of the document afterwards is the
\* text before the selection, the snippet, and the text after the selection
\* (whether or not a line break is inserted), the new span holds exactly the
\* snippet, and the selection is collapsed right after that span.
C13_SelectionReplaced ==
    [][(SnippetStep /\ selection # NoRange /\ ~IsCollapsed(selection)) =>
        LET text == snippetLog'[Len(snippetLog')]
            doc == TextContent(nodes, EditorId)
            before == TextBefore(nodes, selection.sc, selection.so)
            selected == SelectedText(nodes, selection)
            after == SubSeq(doc, Len(before) + Len(selected) + 1, Len(doc))
        IN  /\ TextContent(nodes', EditorId) = before \o text \o after
            /\ \E span \in NewSpans :
                    /\ TextContent(nodes', span) = text
                    /\ selection' = CollapseAfter(nodes', span)]_vars

\* C14: applying the colour of palette entry i (a click on the entry, or the
\* shortcut for entries 0 and 1) with a live selection applies the colour
\* stored at i and records i as the active colour; with no live selection it
\* is a no-op: the active colour index, the applied colour, the document and
\* the rest of the editor state keep their values.
C14_ApplyColor ==
    [][\A i \in Indices(colors) :
        (handleColorClick(i) \/ (i \in {0, 1} /\ handleColorShortcut(i))) =>
            /\ selection # NoRange =>
                    foreColor' = At(colors, i) /\ activeColorIndex' = i
            /\ selection = NoRange =>
                    UNCHANGED <<activeColorIndex, foreColor, nodes, hostFormats,
                                activeFormats, cCounter, iCounter,
                                justInsertedSnippet>>]_vars

\* What the host reports after one more toggle of format f on the selection a
\* step leaves; the deferred refreshes then copy it to FormatState.
AfterSecondToggle(f) == ExecCommand(hostFormats', selection', f)

MutatingCommand ==
    /\ nEvents' # nEvents
    /\ nodes' # nodes \/ hostFormats' # hostFormats \/ foreColor' # foreColor

\* C18: every mutating command defers a refresh of FormatState (it is the
\* last callback queued by the command's step), and once no callback is
\* pending FormatState is what the host reports.
C18_RefreshAfterMutation ==
    /\ [][MutatingCommand =>
            /\ Len(tasks') = Len(tasks) + 1
            /\ tasks'[Len(tasks')] = "updateActiveFormats"]_vars
    /\ [](tasks = <<>> => activeFormats = hostFormats)

\* The snippet spans a step added to the document.
NewSnippetSpans == {n \in NewSpans : nodes'[n].style = SnippetStyle}

\* C19: the flag becomes true in a step of insertSnippet that inserted a
\* snippet span, keeps its value in one that inserted nothing, becomes false
\* at every Tab key-down and changes in no other step.
C19_SnippetFlag ==
    [][/\ (SnippetStep /\ NewSnippetSpans # {}) => justInsertedSnippet' = TRUE
       /\ (SnippetStep /\ NewSnippetSpans = {}) =>
                justInsertedSnippet' = justInsertedSnippet
       /\ handleTab => justInsertedSnippet' = FALSE
       /\ (~SnippetStep /\ ~handleTab) =>
                justInsertedSnippet' = justInsertedSnippet]_vars

\* C11: changeFontSizeBy with no selection or with a collapsed selection
\* changes nothing: the document, the selection and every other part of the
\* editor and palette state keep their values, for every delta.
C11_NoOpWithoutSelection ==
    [][\A d \in {-1, 1} :
        (changeFontSizeBy(d) /\ (selection = NoRange \/ IsCollapsed(selection)))
            => UNCHANGED <<paletteVars, editorVars>>]_vars

\* A font-size step was taken with the caret at the end of the heading's text
\* and nothing selected.
C11_Witness ==
    /\ nEvents = 2
    /\ selection = Caret(3, Len(WelcomeText))
    /\ nodes = InitNodes
    /\ tasks = <<>>
    /\ activeFormats = hostFormats

====
